---- MODULE Spec2Model ----
(***************************************************************************)
(* nodorum: the user service (register, lookups, soft delete, follow       *)
(* toggle) over the users and followers tables, and the request-scoped     *)
(* RequestContext.  Request chains run on one execution resource; a chain  *)
(* is suspended at every awaited store call, so each action below is one   *)
(* run-to-completion segment of one chain, up to and including the store   *)
(* call it awaits.                                                         *)
(***************************************************************************)
EXTENDS Integers, Sequences, FiniteSets, TLC

VARIABLES
    users,        \* users table: sequence of rows, row id = position
    followers,    \* followers table: set of rows [id, followerId, userId]
    nextFollowId, \* auto-increment id of the followers table
    now,          \* wall clock: number of requests the service has accepted
    pc,           \* per chain: position inside its service call
    op,           \* per chain: the service method it runs
    arg,          \* per chain: the method's arguments
    loc,          \* per chain: the method's locals that live across an await
    res,          \* per chain: what the method returned or threw
    hist,         \* observer: the run of back-to-back followAction calls
    contexts,     \* cls namespace: chain -> context captured for its async resources
    request,      \* per chain: the inbound request (its authenticated user)
    nextRcid,     \* number of RequestContext records created so far
    got,          \* per chain: result of the chain's latest RequestContext lookups
    ended,        \* the RequestContext records whose chain has ended, and how
    passwords,    \* users.password, the column read only through addSelect
    listing,      \* per chain: the rows and the count getFollowers has read
    votes,        \* commentvotes table: set of rows [id, userId, commentId, direction]
    nextVoteId,   \* auto-increment id of the commentvotes table
    ballot        \* per chain: the direction of its vote call and the row its lookup found

vars == <<users, followers, nextFollowId, now, pc, op, arg, loc, res, hist,
          contexts, request, nextRcid, got, ended, passwords, listing, votes, nextVoteId, ballot>>

voteVars == <<votes, nextVoteId, ballot>>
svcVars == <<users, followers, nextFollowId, now, pc, op, arg, loc, res, hist,
             passwords, listing, voteVars>>
ctxVars == <<contexts, request, nextRcid, got, ended>>

----------------------------------------------------------------------------
(* Bounds *)

MaxRequests == 3      \* service calls accepted in one behaviour
MaxContexts == 3      \* RequestContext records created in one behaviour
MaxUsers == 2         \* rows of the users table

Chains == {"A", "B"}  \* request chains that may be in flight together

----------------------------------------------------------------------------
(* Values *)

Usernames == {"alice", "bob"}
Emails == {"a@x.com", "b@y.com"}
Deleted == "[DELETED]"
BlankPicture == "pictures/blank-profile-picture-S4P3RS3CR3T"
UserIds == 1..MaxUsers \* ids a caller passes; the row may or may not exist

NoRow == [id |-> 0, username |-> "", email |-> "", displayName |-> "",
          profileImage |-> "", deletedAt |-> 0]

NoArg == [id |-> 0, target |-> 0, username |-> "", email |-> "",
          displayName |-> "", profileImage |-> "", password |-> ""]

Passwords == {"p1", "p2"}

\* argon2 hash(password): never the password itself.
Hash(password) ==
    CASE password = "p1" -> "$argon2i$p1"
      [] password = "p2" -> "$argon2i$p2"
      [] OTHER -> "$argon2i$"

\* argon2 verify(hash, password)
Verify(hash, password) == hash = Hash(password)

\* The password every register call of the model is made with.
RegisterPassword == "p1"

NoListing == [followers |-> {}, followersCount |-> 0]

NoBallot == [direction |-> 0, found |-> 0]

NoLoc == [user |-> NoRow, isFollowing |-> 0, looked |-> FALSE]

NoRes == [kind |-> "none", message |-> "", user |-> NoRow]

Ok(message, row) == [kind |-> "ok", message |-> message, user |-> row]
Thrown(kind, message) == [kind |-> kind, message |-> message, user |-> NoRow]

\* The key uploadProfileImage stores the picture under.
PictureKey(username) ==
    CASE username = "alice" -> "pictures/user/alice.png"
      [] username = "bob" -> "pictures/user/bob.png"
      [] OTHER -> "pictures/user/.png"

RegisterDtos ==
    { [NoArg EXCEPT !.username = u, !.email = e, !.displayName = d[1], !.profileImage = d[2],
                    !.password = RegisterPassword] :
        u \in Usernames, e \in Emails, d \in {<<"", "">>, <<"Al", "data">>} }

----------------------------------------------------------------------------
(* The store *)

Rows == { users[i] : i \in 1..Len(users) }

Min(S) == CHOOSE x \in S : \A y \in S : x <= y

\* Repository.findOne / QueryBuilder.getOne: the first matching row, or none.
First(S) == IF S = {} THEN NoRow
            ELSE CHOOSE r \in S : r.id = Min({ q.id : q \in S })

\* findOne(id): no filter on the tombstone
FindAnyById(id) == First({ r \in Rows : r.id = id })

\* The lookup of followAction without the deletedAt filter.
FindLiveByIdAny(id) == First({ r \in Rows : r.id = id })

\* findOne({ id, deletedAt: IsNull() })
FindLiveById(id) == First({ r \in Rows : r.id = id /\ r.deletedAt = 0 })

\* The lookup with the two ids in each other's column.
FindEdgeSwapped(followerId, userId) ==
    LET S == { f \in followers : f.followerId = userId /\ f.userId = followerId }
    IN  IF S = {} THEN 0 ELSE CHOOSE i \in { f.id : f \in S } : \A j \in { f.id : f \in S } : i <= j

\* findOne({ userId: userToFollowId, followerId: userId }) on the followers table
FindEdge(followerId, userId) ==
    LET S == { f \in followers : f.followerId = followerId /\ f.userId = userId }
    IN  IF S = {} THEN 0 ELSE Min({ f.id : f \in S })

EdgeExists(followerId, userId) ==
    \E f \in followers : f.followerId = followerId /\ f.userId = userId

\* A followers table without the index.
FollowerNotUnique == FALSE

\* The followers table carries a uniqueness index on (followerId, userId).
FollowerUnique == TRUE

\* followerRepository.save(follower): the INSERT is rejected when the
\* uniqueness index already holds the pair.
InsertRejected(followerId, userId) ==
    FollowerUnique /\ EdgeExists(followerId, userId)

\* followerRepository.delete(id): the rows it removes
RowsWithId(id) == { f \in followers : f.id = id }

----------------------------------------------------------------------------
(* Chains *)

Quiet(c) == \A d \in Chains \ {c} : pc[d] \in {"idle", "done"}

NoHist == [u |-> 0, t |-> 0, before |-> FALSE, n |-> 0]

\* The observer of back-to-back followAction(u, t) calls: it starts over at
\* every call that is not a followAction of the same pair made while no
\* other call is in flight.
HistOnStart(c, name, a) ==
    IF name = "followAction" /\ Quiet(c)
    THEN IF hist.n = 1 /\ hist.u = a.id /\ hist.t = a.target
         THEN hist
         ELSE [u |-> a.id, t |-> a.target, before |-> EdgeExists(a.id, a.target), n |-> 0]
    ELSE NoHist

HistOnEnd(h) == IF h.u # 0 THEN [h EXCEPT !.n = h.n + 1] ELSE h

Accept(c, name, a) ==
    /\ pc[c] = "idle"
    /\ now < MaxRequests
    /\ now' = now + 1
    /\ op' = [op EXCEPT ![c] = name]
    /\ arg' = [arg EXCEPT ![c] = a]

Finish(c, r) ==
    /\ pc' = [pc EXCEPT ![c] = "done"]
    /\ res' = [res EXCEPT ![c] = r]

Goto(c, label) ==
    /\ pc' = [pc EXCEPT ![c] = label]
    /\ res' = res

----------------------------------------------------------------------------
(* UserService.register *)

\* The lookup with andWhere in place of orWhere.
RegisterLookupBoth(username, email) ==
    First({ r \in Rows : r.username = username /\ r.email = email })

RegisterLookup(username, email) ==
    First({ r \in Rows : r.username = username \/ r.email = email })

StartRegister(c, dto) ==
    /\ Accept(c, "register", dto)
    /\ Len(users) + Cardinality({ d \in Chains : pc[d] = "reg_save" }) < MaxUsers
    /\ IF RegisterLookup(dto.username, dto.email) # NoRow
       THEN Finish(c, Thrown("BadRequest", "Email or Username is already taken"))
       ELSE Goto(c, "reg_save")
    /\ hist' = NoHist
    /\ UNCHANGED <<users, followers, nextFollowId, loc>>

NewUser(dto, id) ==
    [id |-> id, username |-> dto.username, email |-> dto.email,
     displayName |-> dto.displayName,
     profileImage |-> IF dto.profileImage # "" THEN PictureKey(dto.username) ELSE "",
     deletedAt |-> 0]

RegisterSave(c, bucketName) ==
    /\ pc[c] = "reg_save"
    /\ IF arg[c].profileImage # "" /\ bucketName = ""
       THEN /\ Finish(c, Thrown("InternalServerError", "Internal Server Error"))
            /\ users' = users
       ELSE LET row == NewUser(arg[c], Len(users) + 1)
            IN  /\ users' = Append(users, row)
                /\ Finish(c, Ok("", row))
    /\ passwords' = IF Len(users') > Len(users)
                    THEN Append(passwords, Hash(arg[c].password))
                    ELSE passwords
    /\ UNCHANGED <<followers, nextFollowId, now, op, arg, loc, hist>>

----------------------------------------------------------------------------
(* UserService.findOne, findOneByEmail, findOneByUsername *)

\* The lookups without the deletedAt filter.
findOneAny(id) == First({ r \in Rows : r.id = id })

findOneByUsernameAny(username) == First({ r \in Rows : r.username = username })

findOne(id) == First({ r \in Rows : r.id = id /\ r.deletedAt = 0 })

findOneByEmail(email) == First({ r \in Rows : r.email = email /\ r.deletedAt = 0 })

findOneByUsername(username) ==
    First({ r \in Rows : r.username = username /\ r.deletedAt = 0 })

Found(row) == IF row = NoRow THEN Thrown("NotFound", "User not found") ELSE Ok("", row)

StartFindOne(c, id) ==
    /\ Accept(c, "findOne", [NoArg EXCEPT !.id = id])
    /\ Finish(c, Found(findOne(id)))
    /\ hist' = NoHist
    /\ UNCHANGED <<users, followers, nextFollowId, loc>>

StartFindOneByEmail(c, email) ==
    /\ Accept(c, "findOneByEmail", [NoArg EXCEPT !.email = email])
    /\ Finish(c, Found(findOneByEmail(email)))
    /\ hist' = NoHist
    /\ UNCHANGED <<users, followers, nextFollowId, loc>>

StartFindOneByUsername(c, username) ==
    /\ Accept(c, "findOneByUsername", [NoArg EXCEPT !.username = username])
    /\ Finish(c, Found(findOneByUsername(username)))
    /\ hist' = NoHist
    /\ UNCHANGED <<users, followers, nextFollowId, loc>>

----------------------------------------------------------------------------
(* UserService.delete *)

StartDelete(c, id) ==
    /\ Accept(c, "delete", [NoArg EXCEPT !.id = id])
    /\ LET user == FindAnyById(id)
       IN  IF user = NoRow
           THEN /\ Finish(c, Thrown("NotFound", "User not found"))
                /\ loc' = loc
           ELSE /\ Goto(c, "del_save")
                /\ loc' = [loc EXCEPT ![c].user = user]
    /\ hist' = NoHist
    /\ UNCHANGED <<users, followers, nextFollowId>>

\* Lines 135-139: the entity read at the lookup, with its fields overwritten.
Tombstoned(user, time) ==
    [user EXCEPT !.deletedAt = time,
                 !.displayName = BlankPicture,
                 !.username = Deleted,
                 !.email = Deleted]

\* userRepository.save(entity) of an entity that has an id: the row takes
\* the entity's column values.
SaveUser(entity) == [users EXCEPT ![entity.id] = entity]

DeleteSave(c) ==
    /\ pc[c] = "del_save"
    /\ users' = SaveUser(Tombstoned(loc[c].user, now))
    /\ Finish(c, Ok("User successfully removed", NoRow))
    /\ UNCHANGED <<followers, nextFollowId, now, op, arg, loc, hist>>

----------------------------------------------------------------------------
(* UserService.followAction *)

StartFollowAction(c, userId, userToFollowId) ==
    LET a == [NoArg EXCEPT !.id = userId, !.target = userToFollowId]
        h == HistOnStart(c, "followAction", a)
    IN  /\ Accept(c, "followAction", a)
        /\ IF FindLiveById(userId) = NoRow
           THEN /\ Finish(c, Thrown("NotFound", "User not found"))
                /\ hist' = HistOnEnd(h)
           ELSE /\ Goto(c, "fa_target")
                /\ hist' = h
        /\ UNCHANGED <<users, followers, nextFollowId, loc>>

FollowTarget(c) ==
    /\ pc[c] = "fa_target"
    /\ IF FindLiveById(arg[c].target) = NoRow
       THEN /\ Finish(c, Thrown("NotFound", "User who you are trying to follow does not exist"))
            /\ hist' = HistOnEnd(hist)
       ELSE /\ Goto(c, "fa_edge")
            /\ hist' = hist
    /\ UNCHANGED <<users, followers, nextFollowId, now, op, arg, loc>>

FollowLookup(c) ==
    /\ pc[c] = "fa_edge"
    /\ loc' = [loc EXCEPT ![c].isFollowing = FindEdge(arg[c].id, arg[c].target),
                          ![c].looked = TRUE]
    /\ Goto(c, "fa_write")
    /\ UNCHANGED <<users, followers, nextFollowId, now, op, arg, hist>>

\* The delete keyed by the followed user's id instead of the row's id.
UnfollowByUserId(c) ==
    LET gone == RowsWithId(arg[c].target)
    IN  /\ followers' = followers \ gone
        /\ nextFollowId' = nextFollowId
        /\ IF Cardinality(gone) # 1
           THEN Finish(c, Thrown("InternalServerError", "Database error"))
           ELSE Finish(c, Ok("User unfollowed", NoRow))

\* The delete without the check of the affected rows.
UnfollowUnchecked(c) ==
    /\ followers' = followers \ RowsWithId(loc[c].isFollowing)
    /\ nextFollowId' = nextFollowId
    /\ Finish(c, Ok("User unfollowed", NoRow))

\* Line 162: delete by the id of the row found at the lookup.
Unfollow(c) ==
    LET gone == RowsWithId(loc[c].isFollowing)
    IN  /\ followers' = followers \ gone
        /\ nextFollowId' = nextFollowId
        /\ IF Cardinality(gone) # 1
           THEN Finish(c, Thrown("InternalServerError", "Database error"))
           ELSE Finish(c, Ok("User unfollowed", NoRow))

\* Lines 170-175: insert a new edge; a rejected insert rejects the call.
Follow(c) ==
    IF InsertRejected(arg[c].id, arg[c].target)
    THEN /\ Finish(c, Thrown("QueryFailedError", "duplicate key value violates unique constraint"))
         /\ UNCHANGED <<followers, nextFollowId>>
    ELSE /\ followers' = followers \cup
                {[id |-> nextFollowId, followerId |-> arg[c].id, userId |-> arg[c].target]}
         /\ nextFollowId' = nextFollowId + 1
         /\ Finish(c, Ok("User followed", NoRow))

FollowWrite(c) ==
    /\ pc[c] = "fa_write"
    /\ IF loc[c].isFollowing # 0 THEN Unfollow(c) ELSE Follow(c)
    /\ hist' = HistOnEnd(hist)
    /\ UNCHANGED <<users, now, op, arg, loc>>

----------------------------------------------------------------------------
(* UserService.login *)

\* Lines 62-65: the query both lookups of login run.
LoginQuery(username) == First({ r \in Rows : r.username = username /\ r.deletedAt = 0 })

StartLogin(c, username, password) ==
    /\ Accept(c, "login", [NoArg EXCEPT !.username = username, !.password = password])
    /\ LET user == LoginQuery(username)
       IN  IF user = NoRow
           THEN /\ Finish(c, Thrown("Unauthorized", "Invalid credentials"))
                /\ loc' = loc
           ELSE /\ Goto(c, "login_password")
                /\ loc' = [loc EXCEPT ![c].user = user]
    /\ hist' = NoHist
    /\ UNCHANGED <<users, followers, nextFollowId>>

\* Lines 73-83: the query again with the password column; its result is
\* read without a test, so no row there is a TypeError.
LoginPassword(c) ==
    /\ pc[c] = "login_password"
    /\ LET userWithPassword == LoginQuery(arg[c].username)
       IN  IF userWithPassword = NoRow
           THEN Finish(c, Thrown("TypeError", "Cannot read property 'password' of undefined"))
           ELSE IF ~Verify(passwords[userWithPassword.id], arg[c].password)
                THEN Finish(c, Thrown("Unauthorized", "Invalid credentials"))
                ELSE Finish(c, Ok("", loc[c].user))
    /\ UNCHANGED <<users, followers, nextFollowId, now, op, arg, loc, hist>>

----------------------------------------------------------------------------
(* UserService.update *)

UpdateDtos ==
    { [NoArg EXCEPT !.displayName = "Zed"],
      [NoArg EXCEPT !.profileImage = "pictures/user/new.png"] }

StartUpdate(c, id, dto) ==
    /\ Accept(c, "update", [dto EXCEPT !.id = id])
    /\ LET user == FindLiveById(id)
       IN  IF user = NoRow
           THEN /\ Finish(c, Thrown("NotFound", "User not found"))
                /\ loc' = loc
           ELSE /\ Goto(c, "upd_save")
                /\ loc' = [loc EXCEPT ![c].user = user]
    /\ hist' = NoHist
    /\ UNCHANGED <<users, followers, nextFollowId>>

\* Lines 118-120: the entity read at the lookup, with the fields of the dto.
Updated(user, dto) ==
    [user EXCEPT !.displayName = IF dto.displayName # "" THEN dto.displayName ELSE @,
                 !.profileImage = IF dto.profileImage # "" THEN dto.profileImage ELSE @]

UpdateSave(c) ==
    /\ pc[c] = "upd_save"
    /\ users' = SaveUser(Updated(loc[c].user, arg[c]))
    /\ Finish(c, Ok("", Updated(loc[c].user, arg[c])))
    /\ UNCHANGED <<followers, nextFollowId, now, op, arg, loc, hist>>

----------------------------------------------------------------------------
(* UserService.getFollowers *)

StartGetFollowers(c, userId) ==
    /\ Accept(c, "getFollowers", [NoArg EXCEPT !.id = userId])
    /\ IF FindLiveById(userId) = NoRow
       THEN Finish(c, Thrown("NotFound", "User not found"))
       ELSE Goto(c, "gf_many")
    /\ hist' = NoHist
    /\ UNCHANGED <<users, followers, nextFollowId, loc, listing>>

\* Line 187: the query builder joins the followed user and has no where.
FollowersQuery(userId) == followers

GetMany(c) ==
    /\ pc[c] = "gf_many"
    /\ listing' = [listing EXCEPT ![c].followers = FollowersQuery(arg[c].id)]
    /\ Goto(c, "gf_count")
    /\ UNCHANGED <<users, followers, nextFollowId, now, op, arg, loc, hist>>

GetCount(c) ==
    /\ pc[c] = "gf_count"
    /\ listing' = [listing EXCEPT ![c].followersCount = Cardinality(FollowersQuery(arg[c].id))]
    /\ Finish(c, Ok("", NoRow))
    /\ UNCHANGED <<users, followers, nextFollowId, now, op, arg, loc, hist>>

----------------------------------------------------------------------------
(* The call's result goes back to the controller and the chain ends. *)

Complete(c) ==
    /\ pc[c] = "done"
    /\ pc' = [pc EXCEPT ![c] = "idle"]
    /\ op' = [op EXCEPT ![c] = "none"]
    /\ arg' = [arg EXCEPT ![c] = NoArg]
    /\ loc' = [loc EXCEPT ![c] = NoLoc]
    /\ res' = [res EXCEPT ![c] = NoRes]
    /\ listing' = [listing EXCEPT ![c] = NoListing]
    /\ UNCHANGED <<users, followers, nextFollowId, now, hist>>

----------------------------------------------------------------------------
(* RequestContext *)

NoUser == [id |-> 0]
NoRecord == [id |-> 0, request |-> [user |-> NoUser]]
NoContext == [active |-> FALSE, RequestContext |-> NoRecord]
NoGot == [asked |-> FALSE, context |-> NoRecord, request |-> [user |-> NoUser], user |-> NoUser]

Principals == { [id |-> i] : i \in UserIds }

\* new RequestContext(request, response): a fresh id and the request.
NewRequestContext(id, req) == [id |-> id, request |-> req]

\* The middleware at the head of every inbound request: it runs the rest of
\* the chain inside a fresh context of the namespace and stores the record
\* in it under RequestContext.name.
Bind(c, user) ==
    /\ ~contexts[c].active
    /\ nextRcid <= MaxContexts
    /\ LET rec == NewRequestContext(nextRcid, [user |-> user])
       IN  /\ contexts' = [contexts EXCEPT ![c] = [active |-> TRUE, RequestContext |-> rec]]
           /\ request' = [request EXCEPT ![c] = rec]
    /\ nextRcid' = nextRcid + 1
    /\ got' = [got EXCEPT ![c] = NoGot]

\* cls.getNamespace(nsid).active while chain c runs: the context captured
\* for the chain's async resources, none outside a bound chain.
Session(c) == contexts[c]

currentRequestContextAny(c) ==
    LET bound == { d \in Chains : contexts[d].active }
    IN  IF bound # {}
        THEN contexts[CHOOSE d \in bound : \A e \in bound : contexts[d].RequestContext.id >= contexts[e].RequestContext.id].RequestContext
        ELSE NoRecord

\* The lookup that falls back on the last record it has seen when the
\* namespace has no active context.
currentRequestContextKept(c) ==
    IF Session(c).active THEN Session(c).RequestContext
    ELSE IF ended # {}
         THEN (CHOOSE e \in ended : \A f \in ended : e.record.id >= f.record.id).record
         ELSE NoRecord

currentRequestContext(c) ==
    IF Session(c).active THEN Session(c).RequestContext ELSE NoRecord

currentRequest(c) ==
    LET requestContext == currentRequestContext(c)
    IN  IF requestContext # NoRecord THEN requestContext.request ELSE [user |-> NoUser]

\* The lookup without the test of requestContext: reading .request of null
\* is a TypeError.
TypeError == [id |-> -1]

currentUserUnguarded(c) ==
    LET requestContext == currentRequestContext(c)
    IN  IF requestContext = NoRecord THEN TypeError ELSE requestContext.request.user

currentUser(c) ==
    LET requestContext == currentRequestContext(c)
    IN  IF requestContext # NoRecord /\ requestContext.request.user # NoUser
        THEN requestContext.request.user
        ELSE NoUser

\* Code of chain c (a guard, a decorator, a logger) asks for the context.
Lookup(c) ==
    /\ got' = [got EXCEPT ![c] = [asked |-> TRUE,
                                   context |-> currentRequestContext(c),
                                   request |-> currentRequest(c),
                                   user |-> currentUser(c)]]
    /\ UNCHANGED <<contexts, request, nextRcid>>

\* The chain ends, by a response or by an unhandled failure: its async
\* resources are destroyed and with them the namespace's entry for them.
End(c) ==
    /\ contexts[c].active
    /\ contexts' = [contexts EXCEPT ![c] = NoContext]
    /\ request' = [request EXCEPT ![c] = NoRecord]
    /\ got' = [got EXCEPT ![c] = NoGot]
    /\ UNCHANGED nextRcid

\* The chain ends by an unhandled failure: the rejection leaves the chain
\* and its async resources are destroyed all the same.
Abort(c) ==
    /\ contexts[c].active
    /\ contexts' = [contexts EXCEPT ![c] = NoContext]
    /\ request' = [request EXCEPT ![c] = NoRecord]
    /\ got' = [got EXCEPT ![c] = NoGot]
    /\ UNCHANGED nextRcid

----------------------------------------------------------------------------

\* The tables outlive the process: the service starts on an empty users
\* table or on one that earlier register calls have filled.
InitialUsers ==
    LET alice == NewUser([NoArg EXCEPT !.username = "alice", !.email = "a@x.com",
                                       !.displayName = "Al", !.profileImage = "data"], 1)
        bob == NewUser([NoArg EXCEPT !.username = "bob", !.email = "b@y.com"], 2)
    IN  {<<>>, <<alice>>, <<alice, bob>>}

Init ==
    /\ users \in InitialUsers
    /\ followers = {}
    /\ nextFollowId = 1
    /\ now = 0
    /\ pc = [c \in Chains |-> "idle"]
    /\ op = [c \in Chains |-> "none"]
    /\ arg = [c \in Chains |-> NoArg]
    /\ loc = [c \in Chains |-> NoLoc]
    /\ res = [c \in Chains |-> NoRes]
    /\ hist = NoHist
    /\ contexts = [c \in Chains |-> NoContext]
    /\ request = [c \in Chains |-> NoRecord]
    /\ nextRcid = 1
    /\ got = [c \in Chains |-> NoGot]
    /\ ended = {}
    /\ passwords = [i \in 1..Len(users) |-> Hash(RegisterPassword)]
    /\ listing = [c \in Chains |-> NoListing]
    /\ votes = {}
    /\ nextVoteId = 1
    /\ ballot = [c \in Chains |-> NoBallot]

----------------------------------------------------------------------------
(* The comment-vote service over CommentVoteEntity *)

Directions == {-1, 0, 1}
CommentIds == {1, 2}

\* @Index(['comment', 'user']): an index, not a uniqueness constraint.
VoteIndexUnique == FALSE

FindVote(userId, commentId) ==
    LET S == { v \in votes : v.userId = userId /\ v.commentId = commentId }
    IN  IF S = {} THEN 0 ELSE Min({ v.id : v \in S })

\* The vote call looks the voter's row for the comment up.
StartVote(c, userId, commentId, direction) ==
    /\ Accept(c, "vote", [NoArg EXCEPT !.id = userId, !.target = commentId])
    /\ ballot' = [ballot EXCEPT ![c] = [direction |-> direction,
                                         found |-> FindVote(userId, commentId)]]
    /\ Goto(c, "vote_write")
    /\ UNCHANGED <<users, followers, nextFollowId, loc, hist, votes, nextVoteId>>

\* It overwrites the direction of the row it found, or inserts a row.
VoteWrite(c) ==
    /\ pc[c] = "vote_write"
    /\ IF ballot[c].found # 0
       THEN /\ votes' = { IF v.id = ballot[c].found
                          THEN [v EXCEPT !.direction = ballot[c].direction]
                          ELSE v : v \in votes }
            /\ nextVoteId' = nextVoteId
            /\ Finish(c, Ok("Vote updated", NoRow))
       ELSE IF VoteIndexUnique /\ FindVote(arg[c].id, arg[c].target) # 0
            THEN /\ Finish(c, Thrown("QueryFailedError", "duplicate key value violates unique constraint"))
                 /\ UNCHANGED <<votes, nextVoteId>>
            ELSE /\ votes' = votes \cup {[id |-> nextVoteId, userId |-> arg[c].id,
                                          commentId |-> arg[c].target,
                                          direction |-> ballot[c].direction]}
                 /\ nextVoteId' = nextVoteId + 1
                 /\ Finish(c, Ok("Vote saved", NoRow))
    /\ UNCHANGED <<users, followers, nextFollowId, now, op, arg, loc, hist, ballot>>

NextVote ==
    \/ \E c \in Chains, u \in UserIds, t \in CommentIds, d \in Directions :
          StartVote(c, u, t, d) /\ UNCHANGED <<ctxVars, passwords, listing>>
    \/ \E c \in Chains : VoteWrite(c) /\ UNCHANGED <<ctxVars, passwords, listing>>
    \/ \E c \in Chains :
          /\ Complete(c)
          /\ ballot' = [ballot EXCEPT ![c] = NoBallot]
          /\ UNCHANGED <<ctxVars, passwords, votes, nextVoteId>>

SpecVote == Init /\ [][NextVote]_vars

\* What a step of the user service leaves alone besides its own frame.
Rest == UNCHANGED <<ctxVars, voteVars, passwords, listing>>

Next ==
    \/ \E c \in Chains, dto \in RegisterDtos : StartRegister(c, dto) /\ Rest
    \/ \E c \in Chains, b \in {"", "nodorum"} : RegisterSave(c, b) /\ UNCHANGED <<ctxVars, voteVars, listing>>
    \/ \E c \in Chains, id \in UserIds : StartFindOne(c, id) /\ Rest
    \/ \E c \in Chains, e \in Emails \cup {Deleted} : StartFindOneByEmail(c, e) /\ Rest
    \/ \E c \in Chains, u \in Usernames \cup {Deleted} : StartFindOneByUsername(c, u) /\ Rest
    \/ \E c \in Chains, id \in UserIds : StartDelete(c, id) /\ Rest
    \/ \E c \in Chains : DeleteSave(c) /\ Rest
    \/ \E c \in Chains, u \in UserIds, t \in UserIds : StartFollowAction(c, u, t) /\ Rest
    \/ \E c \in Chains : FollowTarget(c) /\ Rest
    \/ \E c \in Chains : FollowLookup(c) /\ Rest
    \/ \E c \in Chains : FollowWrite(c) /\ Rest
    \/ \E c \in Chains : Complete(c) /\ UNCHANGED <<ctxVars, voteVars, passwords>>

Spec == Init /\ [][Next]_vars

\* The user service with login, update and getFollowers as well.
NextFull ==
    \/ Next
    \/ \E c \in Chains, u \in Usernames, p \in Passwords : StartLogin(c, u, p) /\ Rest
    \/ \E c \in Chains : LoginPassword(c) /\ Rest
    \/ \E c \in Chains, id \in UserIds, dto \in UpdateDtos : StartUpdate(c, id, dto) /\ Rest
    \/ \E c \in Chains : UpdateSave(c) /\ Rest
    \/ \E c \in Chains, id \in UserIds :
          StartGetFollowers(c, id) /\ UNCHANGED <<ctxVars, voteVars, passwords>>
    \/ \E c \in Chains : GetMany(c) /\ UNCHANGED <<ctxVars, voteVars, passwords>>
    \/ \E c \in Chains : GetCount(c) /\ UNCHANGED <<ctxVars, voteVars, passwords>>

SpecFull == Init /\ [][NextFull]_vars

\* The record of a chain that ends joins the ended ones.
Released(c, how) == ended' = ended \cup {[record |-> request[c], how |-> how]}

\* The request chains seen from the RequestContext: bound, asked for their
\* context at any point, ended by a response or by an unhandled failure.
NextCtx ==
    \/ \E c \in Chains, u \in Principals \cup {NoUser} :
          Bind(c, u) /\ UNCHANGED <<svcVars, ended>>
    \/ \E c \in Chains : Lookup(c) /\ UNCHANGED <<svcVars, ended>>
    \/ \E c \in Chains : End(c) /\ Released(c, "response") /\ UNCHANGED svcVars
    \/ \E c \in Chains : Abort(c) /\ Released(c, "failure") /\ UNCHANGED svcVars

SpecCtx == Init /\ [][NextCtx]_vars

----------------------------------------------------------------------------
(* Properties *)

Live(id) == \E i \in 1..Len(users) : users[i].id = id /\ users[i].deletedAt = 0

HasEdge(tbl, u, t) == \E f \in tbl : f.followerId = u /\ f.userId = t

OtherEdges(tbl, u, t) == { f \in tbl : ~(f.followerId = u /\ f.userId = t) }

FollowCalls == { c \in Chains : op[c] = "followAction" }

\* C1: two followAction(u, t) calls made one after the other, with no other
\* call in between, leave the existence of the edge (u, t) as it was before
\* the first; for a live actor and a live target the first of them flips it.
FollowTwiceRestores ==
    /\ hist.n = 2 => HasEdge(followers, hist.u, hist.t) = hist.before
    /\ hist.n = 1 /\ Live(hist.u) /\ Live(hist.t)
          => HasEdge(followers, hist.u, hist.t) # hist.before

FollowTwiceWitness ==
    /\ hist.n = 2
    /\ Live(hist.u) /\ Live(hist.t)
    /\ \E c \in FollowCalls : pc[c] = "done" /\ res[c].kind = "ok"

ChainSeesOwnContext ==
    \A c \in Chains :
        got[c].asked /\ request[c] # NoRecord =>
            /\ got[c].context = request[c]
            /\ got[c].request = request[c].request
            /\ got[c].user = request[c].request.user

TwoChainsAskedWitness ==
    \E c \in Chains, d \in Chains :
        /\ c # d
        /\ got[c].asked /\ got[d].asked
        /\ request[c] # NoRecord /\ request[d] # NoRecord
        /\ request[c].request.user # NoUser
        /\ request[d].request.user # NoUser
        /\ request[c].request.user # request[d].request.user
        /\ request[c].id > request[d].id

Taken(username, email) ==
    \E i \in 1..Len(users) : users[i].username = username \/ users[i].email = email

\* C4: a register call whose username or email some row already holds
\* fails with BadRequest 'Email or Username is already taken' and leaves the
\* users table as it was.
RegisterTakenFails ==
    [][\A c \in Chains :
          pc[c] = "idle" /\ op'[c] = "register" /\ Taken(arg'[c].username, arg'[c].email)
            => /\ pc'[c] = "done"
               /\ res'[c].kind = "BadRequest"
               /\ res'[c].message = "Email or Username is already taken"
               /\ users' = users]_vars

RegisterTakenWitness ==
    \E c \in Chains :
        /\ op[c] = "register" /\ res[c].kind = "BadRequest"
        /\ \E i \in 1..Len(users) :
              users[i].username = arg[c].username /\ users[i].email # arg[c].email

\* C5 as stated: when delete(id) has saved, findOneByUsername of the
\* username the principal had fails with NotFound, the row is still in the
\* table, and the follow edges are what they were.
DeleteHidesUsername ==
    [][\A c \in Chains :
          pc[c] = "del_save" /\ pc'[c] = "done"
            => /\ (findOneByUsername(loc[c].user.username))' = NoRow
               /\ Len(users') = Len(users)
               /\ users'[arg[c].id].id = arg[c].id
               /\ followers' = followers]_vars

\* C5, amended: when delete(id) has saved, findOneByUsername of the username
\* the principal had never returns that principal: it fails with NotFound
\* unless another principal, not tombstoned, holds the username; the row is
\* still in the table and the follow edges are what they were.
DeleteHidesPrincipal ==
    [][\A c \in Chains :
          pc[c] = "del_save" /\ pc'[c] = "done"
            => LET id == arg[c].id
                   name == loc[c].user.username
                   found == (findOneByUsername(loc[c].user.username))'
                   others == { i \in 1..Len(users) :
                                 i # id /\ users[i].username = name /\ users[i].deletedAt = 0 }
               IN  /\ found.id # id
                   /\ found = NoRow <=> others = {}
                   /\ found # NoRow => found.id \in others
                   /\ Len(users') = Len(users)
                   /\ users'[id].id = id
                   /\ \A i \in 1..Len(users) : i # id => users'[i] = users[i]
                   /\ followers' = followers]_vars

\* A principal that follows and is followed has been deleted, once while
\* live and once more when already tombstoned.
DeleteWitness ==
    \E c \in Chains, d \in Chains :
        /\ op[c] = "delete" /\ pc[c] = "done" /\ res[c].kind = "ok"
        /\ loc[c].user.username \in Usernames
        /\ findOneByUsername(loc[c].user.username) = NoRow
        /\ op[d] = "delete" /\ pc[d] = "done" /\ res[d].kind = "ok"
        /\ loc[d].user.username = Deleted
        /\ \E f \in followers : f.followerId = arg[c].id \/ f.userId = arg[c].id

\* C6 as stated, for the call whose lookup found the edge: it returns
\* 'User unfollowed'.
UnfollowedExactlyWhenFound ==
    \A c \in FollowCalls :
        pc[c] = "done" /\ loc[c].looked =>
            (res[c].message = "User unfollowed" <=> loc[c].isFollowing # 0)

\* C6, amended: a call that returns 'User followed' found no edge at its
\* lookup and its write inserted exactly that edge; a call that returns
\* 'User unfollowed' found the edge and its write removed it; a call that
\* fails at its write changes no edge; no write touches another pair's edges.
FollowMessageMatchesLookup ==
    /\ [](\A c \in FollowCalls :
            pc[c] = "done" /\ res[c].kind = "ok" =>
               /\ loc[c].looked
               /\ res[c].message = "User followed" <=> loc[c].isFollowing = 0
               /\ res[c].message = "User unfollowed" <=> loc[c].isFollowing # 0)
    /\ [][\A c \in Chains :
            pc[c] = "fa_write" /\ pc'[c] = "done" =>
               LET u == arg[c].id
                   t == arg[c].target
               IN  /\ OtherEdges(followers', u, t) = OtherEdges(followers, u, t)
                   /\ res'[c].message = "User followed" =>
                         /\ ~HasEdge(followers, u, t)
                         /\ Cardinality(followers' \ followers) = 1
                         /\ followers \subseteq followers'
                         /\ HasEdge(followers', u, t)
                   /\ res'[c].message = "User unfollowed" =>
                         /\ HasEdge(followers, u, t)
                         /\ ~HasEdge(followers', u, t)
                   /\ res'[c].kind # "ok" => followers' = followers]_vars

FollowBothMessagesWitness ==
    \E c \in FollowCalls, d \in FollowCalls :
        /\ pc[c] = "done" /\ res[c].message = "User followed"
        /\ pc[d] = "done" /\ res[d].message = "User unfollowed"
        /\ arg[c] = arg[d]
        /\ arg[c].id # arg[c].target

\* C7: a followAction whose actor, or whose target, is missing or tombstoned
\* when the call looks it up fails with NotFound, and the followers table is
\* unchanged.
FollowNotFound ==
    [][\A c \in Chains :
          \/ pc[c] = "idle" /\ op'[c] = "followAction" /\ ~Live(arg'[c].id)
          \/ pc[c] = "fa_target" /\ pc'[c] # "fa_target" /\ ~Live(arg[c].target)
          => /\ pc'[c] = "done"
             /\ res'[c].kind = "NotFound"
             /\ followers' = followers
             /\ ~loc'[c].looked]_vars

FollowNotFoundWitness ==
    \E c \in FollowCalls, d \in FollowCalls :
        /\ pc[c] = "done" /\ res[c].kind = "NotFound"
        /\ arg[c].id \in 1..Len(users) /\ ~Live(arg[c].id)
        /\ pc[d] = "done" /\ res[d].kind = "NotFound"
        /\ Live(arg[d].id)
        /\ arg[d].target \in 1..Len(users) /\ ~Live(arg[d].target)

\* C8: a followAction that found the edge and whose delete removes no row
\* fails with InternalServerError; of two calls that found the same edge at
\* most one returns 'User unfollowed'.
LostUnfollowDetected ==
    /\ [][\A c \in Chains :
            /\ pc[c] = "fa_write" /\ pc'[c] = "done"
            /\ loc[c].isFollowing # 0
            /\ ~\E f \in followers : f.id = loc[c].isFollowing
            => res'[c].kind = "InternalServerError" /\ res'[c].message = "Database error"]_vars
    /\ [](\A c \in FollowCalls, d \in FollowCalls :
            /\ c # d
            /\ loc[c].isFollowing # 0
            /\ loc[c].isFollowing = loc[d].isFollowing
            /\ res[c].message = "User unfollowed"
            => res[d].message # "User unfollowed")

LostUnfollowWitness ==
    \E c \in FollowCalls, d \in FollowCalls :
        /\ c # d
        /\ loc[c].isFollowing # 0
        /\ loc[c].isFollowing = loc[d].isFollowing
        /\ res[c].message = "User unfollowed"
        /\ res[d].kind = "InternalServerError"

\* C9: a followAction whose lookup found no edge does not fail when its
\* insert meets the uniqueness index: it ends without an error.
FollowInsertNeverFatal ==
    \A c \in FollowCalls :
        pc[c] = "done" /\ loc[c].looked /\ loc[c].isFollowing = 0 => res[c].kind = "ok"

FindOps == {"findOne", "findOneByEmail", "findOneByUsername"}

FindCalls == { c \in Chains : op[c] \in FindOps }

Asked(name, a, row) ==
    CASE name = "findOne" -> row.id = a.id
      [] name = "findOneByEmail" -> row.email = a.email
      [] name = "findOneByUsername" -> row.username = a.username
      [] OTHER -> FALSE

\* C10: findOne, findOneByEmail and findOneByUsername return only a row
\* whose deletedAt is not set, and it is a row asked for; when every row
\* asked for is tombstoned or missing they fail with NotFound.
FindersSkipTombstones ==
    /\ [](\A c \in FindCalls :
            pc[c] = "done" /\ res[c].kind # "NotFound" =>
               /\ res[c].kind = "ok"
               /\ res[c].user.deletedAt = 0
               /\ res[c].user.id \in 1..Len(users)
               /\ Asked(op[c], arg[c], res[c].user))
    /\ [][\A c \in Chains :
            pc[c] = "idle" /\ op'[c] \in FindOps =>
               LET live == { i \in 1..Len(users) :
                               Asked(op'[c], arg'[c], users[i]) /\ users[i].deletedAt = 0 }
               IN  /\ pc'[c] = "done"
                   /\ users' = users
                   /\ IF live = {}
                      THEN res'[c].kind = "NotFound" /\ res'[c].message = "User not found"
                      ELSE res'[c].kind = "ok" /\ res'[c].user.id \in live]_vars

FindersWitness ==
    \E c \in FindCalls, d \in FindCalls :
        /\ pc[c] = "done" /\ res[c].kind = "NotFound"
        /\ \E i \in 1..Len(users) : users[i].deletedAt # 0 /\ arg[c].id = i
        /\ pc[d] = "done" /\ res[d].kind = "ok"

Sentinels == {Deleted, BlankPicture}

\* C11: the save of delete(id) keeps the row, sets its tombstone and leaves
\* in username, email, displayName and profileImage a fixed sentinel value,
\* whatever the field held before.
DeleteAnonymises ==
    [][\A c \in Chains :
          pc[c] = "del_save" /\ pc'[c] = "done" =>
             LET row == users'[arg[c].id]
             IN  /\ Len(users') = Len(users)
                 /\ row.id = arg[c].id
                 /\ row.deletedAt # 0
                 /\ row.username \in Sentinels
                 /\ row.email \in Sentinels
                 /\ row.displayName \in Sentinels
                 /\ row.profileImage \in Sentinels]_vars

\* C12: a lookup made outside any bound chain returns null from
\* currentRequestContext, currentRequest and currentUser, and currentUser
\* returns null inside a chain whose request carries no user; no lookup
\* ends in an error.
LookupsReturnNull ==
    \A c \in Chains :
        got[c].asked =>
            /\ got[c].user # TypeError
            /\ request[c] = NoRecord =>
                  /\ got[c].context = NoRecord
                  /\ got[c].request = NoRecord.request
                  /\ got[c].user = NoUser
            /\ request[c] # NoRecord /\ request[c].request.user = NoUser =>
                  /\ got[c].context # NoRecord
                  /\ got[c].user = NoUser

LookupsNullWitness ==
    \E c \in Chains, d \in Chains :
        /\ got[c].asked /\ request[c] = NoRecord
        /\ got[d].asked /\ request[d] # NoRecord /\ request[d].request.user = NoUser
        /\ nextRcid > 2

\* C15: no two rows without a tombstone share a username or share an email.
LiveRowsDistinct ==
    \A i \in 1..Len(users), j \in 1..Len(users) :
        i # j /\ users[i].deletedAt = 0 /\ users[j].deletedAt = 0 =>
            /\ users[i].username # users[j].username
            /\ users[i].email # users[j].email

\* C17: delete(id) of a row that is already tombstoned fails with NotFound
\* and no delete changes a tombstoned row.
DeleteOfTombstonedNotFound ==
    [][\A c \in Chains :
          /\ pc[c] = "idle" /\ op'[c] = "delete" /\ arg'[c].id \in 1..Len(users)
                /\ users[arg'[c].id].deletedAt # 0
                => pc'[c] = "done" /\ res'[c].kind = "NotFound" /\ users' = users
          /\ pc[c] = "del_save" /\ pc'[c] = "done" /\ users[arg[c].id].deletedAt # 0
                => users' = users]_vars

\* C14: no lookup returns the record of a chain that has ended, by a
\* response or by an unhandled failure: a lookup made outside any chain
\* returns none and a lookup made in a later chain returns that chain's own.
EndedRecordNeverSeen ==
    \A c \in Chains :
        got[c].asked =>
            /\ \A e \in ended : got[c].context # e.record
            /\ request[c] = NoRecord => got[c].context = NoRecord
            /\ request[c] # NoRecord => got[c].context = request[c]

EndedRecordWitness ==
    \E c \in Chains, d \in Chains :
        /\ c # d
        /\ \E e \in ended : e.how = "failure" /\ e.record.request.user # NoUser
        /\ \E e \in ended : e.how = "response"
        /\ got[c].asked /\ request[c] = NoRecord
        /\ got[d].asked /\ request[d] # NoRecord
        /\ \E e \in ended : e.record.id < request[d].id

\* C13: the commentvotes table holds at most one row per (voter, comment),
\* and when a vote call has ended with no other call in flight that row
\* carries the direction of the call.
OneVotePerPair ==
    /\ \A v \in votes, w \in votes :
          v.userId = w.userId /\ v.commentId = w.commentId => v = w
    /\ \A c \in Chains :
          op[c] = "vote" /\ pc[c] = "done" /\ res[c].kind = "ok" /\ Quiet(c)
             /\ (\A d \in Chains \ {c} : op[d] = "none")
          => \E v \in votes : /\ v.userId = arg[c].id
                              /\ v.commentId = arg[c].target
                              /\ v.direction = ballot[c].direction

\* C16: a login call ends by returning the principal, not tombstoned, or by
\* Unauthorized 'Invalid credentials', and in no other way.
LoginOnlyUnauthorized ==
    \A c \in Chains :
        op[c] = "login" /\ pc[c] = "done" =>
            \/ res[c].kind = "ok" /\ res[c].user # NoRow /\ res[c].user.deletedAt = 0
            \/ res[c].kind = "Unauthorized" /\ res[c].message = "Invalid credentials"

\* C18: a row whose deletedAt is set keeps it set, and keeps its username
\* and its email, at every step of every call.
TombstonesPermanent ==
    [][\A i \in 1..Len(users) :
          users[i].deletedAt # 0 =>
             /\ users'[i].deletedAt # 0
             /\ users'[i].username = users[i].username
             /\ users'[i].email = users[i].email]_vars

\* C19: getFollowers(userId) of a live user returns the edges whose followed
\* principal is userId and no other, with their number as followersCount;
\* for a missing or tombstoned userId it fails with NotFound.
FollowersOfUserOnly ==
    /\ [](\A c \in Chains :
            op[c] = "getFollowers" /\ pc[c] \in {"gf_count", "done"} /\ res[c].kind # "NotFound" =>
               \A f \in listing[c].followers : f.userId = arg[c].id)
    /\ [][\A c \in Chains :
            /\ pc[c] = "gf_many" /\ pc'[c] = "gf_count" =>
                  listing'[c].followers = { f \in followers : f.userId = arg[c].id }
            /\ pc[c] = "gf_count" /\ pc'[c] = "done" =>
                  listing'[c].followersCount =
                      Cardinality({ f \in followers : f.userId = arg[c].id })
            /\ pc[c] = "idle" /\ op'[c] = "getFollowers" /\ ~Live(arg'[c].id) =>
                  pc'[c] = "done" /\ res'[c].kind = "NotFound"]_vars

====
